---- MODULE Spec2Model ----
(***************************************************************************)
(* The HealthCalculator of app.py (BMI, BMI category, ideal weight range,  *)
(* daily calories) as a state machine: one HealthCalculator instance, on    *)
(* which a client makes one call after another.                            *)
(*                                                                         *)
(* Numbers.  Weights and heights are carried in tenths of their unit (the   *)
(* input forms step by 0.1), BMI values in hundredths (so that 18.45 can    *)
(* be written), calories as integers.  Inside an operation the Python       *)
(* float arithmetic is modelled by exact rational arithmetic.  A float      *)
(* differs from the exact value by a relative error below 1e-15, which can  *)
(* change the outcome of round(x, 1) or int(x) only when the exact value    *)
(* lies on a rounding or truncation boundary.  There, and only there, the   *)
(* outcome depends on the sign of the accumulated binary error, which the   *)
(* model takes as an extra input err \in {-1, 1} of the operation: it is a  *)
(* function of the numeric arguments that the model does not compute.       *)
(***************************************************************************)
EXTENDS Integers, Sequences, FiniteSets, TLC

VARIABLES
    bmi_categories,  \* the instance's table, as the dict's items in order
    pc,              \* "ready": no call in progress; "done": a call returned
    call,            \* the call made last: its operation and arguments
    result,          \* what that call returned or raised
    ncalls           \* how many calls the instance has served

vars == <<bmi_categories, pc, call, result, ncalls>>

----------------------------------------------------------------------------
(* Exact rational arithmetic standing for Python's float arithmetic.  A     *)
(* number is held in sign and magnitude, the magnitude as a mixed fraction *)
(* i + n/d in lowest terms with 0 <= n < d, so that the arithmetic stays    *)
(* within the model checker's 32-bit integers.                             *)

Abs(x) == IF x < 0 THEN -x ELSE x

RECURSIVE GCD(_, _)
GCD(a, b) == IF b = 0 THEN a ELSE GCD(b, a % b)

\* Quotient and remainder of a * b by d, for a, b >= 0 and d > 0, without
\* forming a * b when it exceeds 32 bits (binary long multiplication).
RECURSIVE MulDiv(_, _, _)
MulDiv(a, b, d) ==
    IF b = 0 THEN [q |-> 0, r |-> 0]
    ELSE IF a <= 2147483647 \div b THEN [q |-> (a * b) \div d, r |-> (a * b) % d]
    ELSE LET h   == MulDiv(a, b \div 2, d)
             odd == b % 2 = 1
             t   == 2 * h.r + (IF odd THEN a % d ELSE 0)
         IN  [q |-> 2 * h.q + (IF odd THEN a \div d ELSE 0) + t \div d,
              r |-> t % d]

\* The number s * (q + r/d), for 0 <= r < d.
Mixed(s, q, r, d) ==
    LET g == GCD(r, d)
    IN  [s |-> IF q = 0 /\ r = 0 THEN 1 ELSE s, i |-> q, n |-> r \div g, d |-> d \div g]

\* The number k/d, for an integer k and d > 0.
Frac(k, d) == Mixed(IF k < 0 THEN -1 ELSE 1, Abs(k) \div d, Abs(k) % d, d)

Num(k) == Frac(k, 1)

\* The magnitude of x as the numerator of an improper fraction over x.d.
Improper(x) == x.i * x.d + x.n

IsZero(x) == x.i = 0 /\ x.n = 0

\* x * y; the factors are cancelled crosswise before they are multiplied.
Mul(x, y) ==
    LET g1 == GCD(Improper(x), y.d)
        g2 == GCD(Improper(y), x.d)
        a  == Improper(x) \div g1
        b  == Improper(y) \div g2
        d  == (x.d \div g2) * (y.d \div g1)
        m  == IF a < b THEN MulDiv(b, a, d) ELSE MulDiv(a, b, d)
    IN  Mixed(x.s * y.s, m.q, m.r, d)

\* x / y for y # 0.
Div(x, y) == Mul(x, Frac(y.s * y.d, Improper(y)))

Add(x, y) ==
    LET g == GCD(x.d, y.d)
    IN  Frac(x.s * Improper(x) * (y.d \div g) + y.s * Improper(y) * (x.d \div g),
             (x.d \div g) * y.d)

Sub(x, y) == Add(x, [y EXCEPT !.s = -y.s])

\* The sign of the binary error on a boundary: the float is below or above
\* the exact value.
FloatErr == {-1, 1}

\* A slip: int() taken for rounding to the nearest integer.
int_nearest(x, err) ==
    IF 2 * x.n >= x.d THEN x.s * (x.i + 1) ELSE x.s * x.i

\* Python's int(x) for a float x: truncation toward zero.  When the exact
\* value is a nonzero integer N the float may lie just inside it (err
\* pointing to zero), and int then gives the integer next to N toward zero.
int(x, err) ==
    IF x.n = 0 /\ x.i > 0 /\ err = -x.s THEN x.s * (x.i - 1) ELSE x.s * x.i

\* A slip: the BMI cut to one decimal instead of rounded.
round1_cut(x, err) == x.s * (10 * x.i + MulDiv(x.n, 10, x.d).q)

\* Python's round(x, 1) for a float x, in tenths: the nearest tenth.  On an
\* exact tie of the decimal value the float lies on one side of it (or on it,
\* and the tie goes to the even neighbour): the result is the neighbour on
\* the side of err.
round1(x, err) ==
    LET m == MulDiv(x.n, 10, x.d)
        t == 10 * x.i + m.q               \* floor(10 |x|)
    IN  IF 2 * m.r > x.d THEN x.s * (t + 1)
        ELSE IF 2 * m.r < x.d THEN x.s * t
        ELSE IF err = x.s THEN x.s * (t + 1) ELSE x.s * t

\* Whether x is a binary fraction, which a float holds exactly.
RECURSIVE PowerOfTwo(_)
PowerOfTwo(d) == d = 1 \/ (d % 2 = 0 /\ PowerOfTwo(d \div 2))
Dyadic(x) == PowerOfTwo(x.d)

\* A weight or height given in tenths of its unit.
Tenths(k) == Frac(k, 10)

----------------------------------------------------------------------------
(* Outcomes of a call.                                                     *)

Return(v) == [raised |-> "", value |-> v]
Raise(e)  == [raised |-> e, value |-> 0]

----------------------------------------------------------------------------
(* HealthCalculator                                                        *)

Metric   == "Metric (kg, cm)"
Imperial == "Imperial (lbs, inches)"
UnitSystems == {Metric, Imperial}

\* float('inf'), in hundredths: above every BMI of the model.
Inf == 2147483647

\* A slip: Normal weight starting at 18.6, which leaves 18.5 to no category.
BmiCategoriesGap ==
    << <<"Underweight",          0, 1840>>,
       <<"Normal weight",     1860, 2490>>,
       <<"Overweight",        2500, 2990>>,
       <<"Obesity Class I",   3000, 3490>>,
       <<"Obesity Class II",  3500, 3990>>,
       <<"Obesity Class III", 4000, Inf>> >>

\* __init__: the table, bounds in hundredths.
BmiCategories ==
    << <<"Underweight",          0, 1840>>,
       <<"Normal weight",     1850, 2490>>,
       <<"Overweight",        2500, 2990>>,
       <<"Obesity Class I",   3000, 3490>>,
       <<"Obesity Class II",  3500, 3990>>,
       <<"Obesity Class III", 4000, Inf>> >>

\* A slip: the metric height used in centimetres.
calculate_bmi_cm(weight, height, unit_system, err) ==
    LET square == Mul(height, height)
    IN  IF IsZero(square) THEN Raise("ZeroDivisionError")
        ELSE IF unit_system = Metric
        THEN Return(10 * round1(Div(weight, square), err))
        ELSE Return(10 * round1(Mul(Div(weight, square), Num(703)), err))

\* calculate_bmi(weight, height, unit_system): the BMI rounded to one decimal,
\* in hundredths.  Dividing by a zero float raises ZeroDivisionError.
calculate_bmi(weight, height, unit_system, err) ==
    IF unit_system = Metric
    THEN LET height_m == Div(height, Num(100))
             square   == Mul(height_m, height_m)
         IN  IF IsZero(square) THEN Raise("ZeroDivisionError")
             ELSE Return(10 * round1(Div(weight, square), err))
    ELSE LET square == Mul(height, height)
         IN  IF IsZero(square) THEN Raise("ZeroDivisionError")
             ELSE Return(10 * round1(Mul(Div(weight, square), Num(703)), err))

\* get_bmi_category(bmi): the first entry of the table, in its order, whose
\* closed interval holds bmi; "Unknown" when none does.
get_bmi_category(categories, bmi) ==
    LET hits == {i \in 1..Len(categories) :
                    categories[i][2] <= bmi /\ bmi <= categories[i][3]}
    IN  IF hits = {} THEN "Unknown"
        ELSE categories[CHOOSE i \in hits : \A j \in hits : i <= j][1]

\* dict.get(key, default)
Get(dict, key, default) == IF key \in DOMAIN dict THEN dict[key] ELSE default

activity_multipliers ==
    ("Sedentary" :> Frac(12, 10)) @@ ("Lightly active" :> Frac(1375, 1000)) @@
    ("Moderately active" :> Frac(155, 100)) @@ ("Very active" :> Frac(1725, 1000)) @@
    ("Extremely active" :> Frac(19, 10))

goal_adjustments ==
    ("Lose weight" :> -500) @@ ("Maintain weight" :> 0) @@ ("Gain weight" :> 500)

\* The multiplier of an activity level the table does not hold.
default_multiplier_one == Num(1)
default_multiplier == Frac(12, 10)

\* calculate_calories(age, weight, height, gender, activity_level, goal):
\* the Mifflin-St Jeor rate times the activity multiplier, plus the goal's
\* adjustment, through int().  When weight and height are binary fractions
\* the rate is an exact float, and its product with the float of a
\* multiplier (each within 2^-54 of its decimal, relatively) rounds to the
\* exact value whenever that is an integer: int() is then exact.
calculate_calories(age, weight, height, gender, activity_level, goal, err) ==
    LET base == Sub(Add(Mul(Num(10), weight), Mul(Frac(625, 100), height)),
                    Num(5 * age))
        bmr  == IF gender = "Male" THEN Add(base, Num(5)) ELSE Sub(base, Num(161))
        maintenance_calories ==
            Mul(bmr, Get(activity_multipliers, activity_level, default_multiplier))
        total == Add(maintenance_calories, Num(Get(goal_adjustments, goal, 0)))
    IN  Return(int(total, IF Dyadic(weight) /\ Dyadic(height) THEN total.s ELSE err))

\* A slip: the range taken from BMI 18.4 to 25.
calculate_ideal_weight_wide(height, unit_system, errs) ==
    LET height_m == Div(height, Num(100))
        square   == IF unit_system = Metric THEN Mul(height_m, height_m)
                    ELSE Div(Mul(height, height), Num(703))
    IN  Return(<<round1(Mul(Frac(184, 10), square), errs[1]),
                 round1(Mul(Num(25), square), errs[2])>>)

\* calculate_ideal_weight(height, unit_system): the two ends, each rounded to
\* one decimal, in tenths.  errs is the pair of binary errors of the two
\* roundings.
calculate_ideal_weight(height, unit_system, errs) ==
    LET height_m == Div(height, Num(100))
        min_ideal == IF unit_system = Metric
                     THEN Mul(Frac(185, 10), Mul(height_m, height_m))
                     ELSE Div(Mul(Frac(185, 10), Mul(height, height)), Num(703))
        max_ideal == IF unit_system = Metric
                     THEN Mul(Frac(249, 10), Mul(height_m, height_m))
                     ELSE Div(Mul(Frac(249, 10), Mul(height, height)), Num(703))
    IN  Return(<<round1(min_ideal, errs[1]), round1(max_ideal, errs[2])>>)

\* A slip: a lookup that consumes the table it walks.
after_call_consumed(categories) == Tail(categories)

\* No method of HealthCalculator assigns to self.bmi_categories or to
\* anything else a later call reads: the table after a call.
after_call(categories) == categories

----------------------------------------------------------------------------
(* show_bmi_calculator and show_calorie_calculator                         *)

\* The colour class of the result box.
css_class(category) ==
    IF category = "Normal weight" THEN "healthy"
    ELSE IF category \in {"Overweight", "Obesity Class I"} THEN "overweight"
    ELSE IF category \in {"Obesity Class II", "Obesity Class III"} THEN "obese"
    ELSE "underweight"

\* The "Calculate BMI" button: BMI, its category (of the rounded BMI), the
\* ideal weight range and the colour class.
show_bmi_calculator(categories, weight, height, unit_system, err, errs) ==
    LET bmi      == calculate_bmi(Tenths(weight), Tenths(height), unit_system, err)
        category == get_bmi_category(categories, bmi.value)
        ideal    == calculate_ideal_weight(Tenths(height), unit_system, errs)
    IN  IF bmi.raised # "" THEN bmi
        ELSE Return([bmi |-> bmi.value, category |-> category,
                     min_ideal |-> ideal.value[1], max_ideal |-> ideal.value[2],
                     css_class |-> css_class(category)])

\* The "Calculate Calories" button converts imperial input with these.
height_cm(height, unit_system) ==
    IF unit_system = Imperial THEN Mul(height, Frac(254, 100)) ELSE height

\* A slip: pounds passed on as kilograms.
weight_kg_unconverted(weight, unit_system) == weight

weight_kg(weight, unit_system) ==
    IF unit_system = Imperial THEN Mul(weight, Frac(453592, 1000000)) ELSE weight

----------------------------------------------------------------------------
(* The inputs of the model.                                                *)

\* The limits of the input forms, weights and heights in tenths.
MinWeight   == 10
MaxWeightKg == 3000
MaxWeightLb == 6000
MinHeightCm == 500
MaxHeightCm == 2500
MinHeightIn == 200
MaxHeightIn == 1000
MinAge      == 1
MaxAge      == 120

\* The grids the inputs are drawn from.
WeightStep        == 61
HeightStep        == 25
EdgeSpan          == 4
MaxBmi            == 4300
AgeStep           == 24
CalorieWeightStep == 690
CalorieHeightStep == 400
MaxCalls          == 2

Grid(lo, hi, step) ==
    {v \in lo..hi : (v - lo) % step = 0 \/ v - lo < EdgeSpan \/ hi - v < EdgeSpan}

\* Weights and heights given to calculate_bmi and calculate_ideal_weight: the
\* forms' ranges, and values no form lets through.
Weights == Grid(0, MaxWeightLb, WeightStep) \cup {-700, 700, 1540}
Heights == Grid(MinHeightIn, MaxHeightCm, HeightStep) \cup {-1700, 0, 670, 1700}

FormWeights(unit_system) ==
    {w \in Weights : MinWeight <= w /\
                     w <= (IF unit_system = Metric THEN MaxWeightKg ELSE MaxWeightLb)}
FormHeights(unit_system) ==
    {h \in Heights : IF unit_system = Metric
                     THEN MinHeightCm <= h /\ h <= MaxHeightCm
                     ELSE MinHeightIn <= h /\ h <= MaxHeightIn}

\* BMI values given to get_bmi_category, in hundredths.
BmiValues == -5..MaxBmi \cup {100000}

Ages           == {a \in MinAge..MaxAge : (a - MinAge) % AgeStep = 0}
CalorieWeights == {w \in MinWeight..MaxWeightKg : (w - MinWeight) % CalorieWeightStep = 0}
CalorieHeights == {h \in MinHeightCm..MaxHeightCm : (h - MinHeightCm) % CalorieHeightStep = 0}
                      \cup {796}
Genders        == {"Male", "Female"}
ActivityLevels == DOMAIN activity_multipliers \cup {"Athlete"}
Goals          == DOMAIN goal_adjustments \cup {"Recomposition"}

----------------------------------------------------------------------------
(* The state machine.                                                      *)

NoCall   == [op |-> "none"]
NoResult == Return(0)

Init ==
    /\ bmi_categories = BmiCategories
    /\ pc = "ready"
    /\ call = NoCall
    /\ result = NoResult
    /\ ncalls = 0

\* A call returns: the instance is left as the method left it.
Done(c, r) ==
    /\ pc' = "done"
    /\ call' = c
    /\ result' = r
    /\ ncalls' = ncalls + 1
    /\ bmi_categories' = after_call(bmi_categories)

\* err (or errs) is recorded as -1 only where it decides the outcome.
CallCalculateBmi ==
    /\ pc = "ready" /\ ncalls < MaxCalls
    /\ \E weight \in Weights, height \in Heights, unit_system \in UnitSystems,
          err \in FloatErr :
          LET r == calculate_bmi(Tenths(weight), Tenths(height), unit_system, err)
          IN  /\ err = 1 \/
                 r # calculate_bmi(Tenths(weight), Tenths(height), unit_system, 1)
              /\ Done([op |-> "calculate_bmi", weight |-> weight, height |-> height,
                       unit_system |-> unit_system, err |-> err], r)

CallGetBmiCategory ==
    /\ pc = "ready" /\ ncalls < MaxCalls
    /\ \E bmi \in BmiValues :
          Done([op |-> "get_bmi_category", bmi |-> bmi],
               Return(get_bmi_category(bmi_categories, bmi)))

CallCalculateCalories ==
    /\ pc = "ready" /\ ncalls < MaxCalls
    /\ \E age \in Ages, weight \in CalorieWeights, height \in CalorieHeights,
          gender \in Genders, activity_level \in ActivityLevels, goal \in Goals,
          err \in FloatErr :
          LET r == calculate_calories(age, Tenths(weight), Tenths(height), gender,
                                      activity_level, goal, err)
          IN  /\ err = 1 \/
                 r # calculate_calories(age, Tenths(weight), Tenths(height), gender,
                                        activity_level, goal, 1)
              /\ Done([op |-> "calculate_calories", age |-> age, weight |-> weight,
                       height |-> height, gender |-> gender,
                       activity_level |-> activity_level, goal |-> goal,
                       err |-> err], r)

CallCalculateIdealWeight ==
    /\ pc = "ready" /\ ncalls < MaxCalls
    /\ \E height \in Heights, unit_system \in UnitSystems,
          errs \in FloatErr \X FloatErr :
          LET r == calculate_ideal_weight(Tenths(height), unit_system, errs)
          IN  /\ errs = <<1, 1>> \/
                 r # calculate_ideal_weight(Tenths(height), unit_system, <<1, 1>>)
              /\ Done([op |-> "calculate_ideal_weight", height |-> height,
                       unit_system |-> unit_system, errs |-> errs], r)

ShowBmiCalculator ==
    /\ pc = "ready" /\ ncalls < MaxCalls
    /\ \E unit_system \in UnitSystems, err \in FloatErr, errs \in FloatErr \X FloatErr :
       \E weight \in FormWeights(unit_system), height \in FormHeights(unit_system) :
          LET r == show_bmi_calculator(bmi_categories, weight, height, unit_system,
                                       err, errs)
          IN  /\ (err = 1 /\ errs = <<1, 1>>) \/
                 r # show_bmi_calculator(bmi_categories, weight, height, unit_system,
                                         1, <<1, 1>>)
              /\ Done([op |-> "show_bmi_calculator", weight |-> weight,
                       height |-> height, unit_system |-> unit_system,
                       err |-> err, errs |-> errs], r)

\* The caller takes the outcome; the instance is ready for the next call.
Resume ==
    /\ pc = "done"
    /\ pc' = "ready"
    /\ call' = NoCall
    /\ result' = NoResult
    /\ UNCHANGED <<bmi_categories, ncalls>>

Next ==
    \/ CallCalculateBmi
    \/ CallGetBmiCategory
    \/ CallCalculateCalories
    \/ CallCalculateIdealWeight
    \/ ShowBmiCalculator
    \/ Resume

Spec == Init /\ [][Next]_vars

----------------------------------------------------------------------------
(* The claims.                                                             *)

Categories == {"Underweight", "Normal weight", "Overweight", "Obesity Class I",
               "Obesity Class II", "Obesity Class III"}

\* The call that has just returned is a call of op.
IsCall(op) == pc = "done" /\ call.op = op

\* The outcome of the calculate_bmi call does not rest on a binary error.
SettledBmi ==
    calculate_bmi(Tenths(call.weight), Tenths(call.height), call.unit_system, 1)
        = calculate_bmi(Tenths(call.weight), Tenths(call.height), call.unit_system, -1)

\* v, in hundredths, is the value s * a * b / d rounded to one decimal
\* (a, b >= 0, d > 0), a tie going either way.
IsRounded1(v, s, a, b, d) ==
    LET m == MulDiv(a, b, d)
        t == Abs(v) \div 10
    IN  /\ v % 10 = 0
        /\ v = 0 \/ (v > 0) = (s > 0)
        /\ \/ t = m.q /\ 2 * m.r <= d
           \/ t = m.q + 1 /\ 2 * m.r >= d

\* C1: for every weight and every height > 0, calculate_bmi returns
\* weight_kg / (height_cm / 100)^2 in Metric and (weight_lb / height_in^2) * 703
\* in Imperial, rounded to one decimal place; 70 kg at 170 cm gives 24.2.
C1_BmiFormula ==
    IsCall("calculate_bmi") /\ call.height > 0 =>
        /\ result.raised = ""
        /\ IsRounded1(result.value, IF call.weight < 0 THEN -1 ELSE 1,
                      Abs(call.weight),
                      IF call.unit_system = Metric THEN 1000000 ELSE 70300,
                      call.height * call.height)
        /\ call.weight = 700 /\ call.height = 1700 /\ call.unit_system = Metric
               => result.value = 2420

C1_Witness ==
    /\ IsCall("calculate_bmi")
    /\ call.weight = 700 /\ call.height = 1700 /\ call.unit_system = Metric
    /\ result.value = 2420

\* C2: calculate_bmi with height <= 0 fails with InvalidInput: no numeric
\* BMI, no ZeroDivisionError reaching the caller.
C2_HeightRejected ==
    IsCall("calculate_bmi") /\ call.height <= 0 /\ SettledBmi =>
        result.raised = "InvalidInput"

\* C3: every bmi >= 0 falls in exactly one interval of the table, and
\* get_bmi_category returns that category, never "Unknown".
C3_CategoryTotal ==
    IsCall("get_bmi_category") /\ call.bmi >= 0 =>
        /\ result.value \in Categories
        /\ Cardinality({i \in 1..Len(bmi_categories) :
                           bmi_categories[i][2] <= call.bmi
                           /\ call.bmi <= bmi_categories[i][3]}) = 1

\* The unrounded BMI of the call is above 0.05.
AboveHalfTenth ==
    call.weight > (call.height * call.height)
                      \div (IF call.unit_system = Metric THEN 2000000 ELSE 140600)

\* C4 as stated: for height > 0 and weight > 0 the rounded BMI is strictly
\* positive and finite.
C4_Original ==
    IsCall("calculate_bmi") /\ call.height > 0 /\ call.weight > 0 /\ SettledBmi =>
        result.raised = "" /\ 0 < result.value /\ result.value < Inf

\* C4 as amended: for height > 0 and weight > 0 the rounded BMI is finite and
\* never negative, and strictly positive whenever the unrounded BMI is above
\* 0.05.
C4_Positive ==
    IsCall("calculate_bmi") /\ call.height > 0 /\ call.weight > 0 =>
        /\ result.raised = ""
        /\ 0 <= result.value /\ result.value < Inf
        /\ AboveHalfTenth => result.value > 0

C4_Witness ==
    /\ IsCall("calculate_bmi") /\ call.height > 0 /\ call.weight > 0
    /\ AboveHalfTenth /\ result.value = 10

\* The claim's multipliers, in thousandths, and its offsets.
ClaimMultiplier ==
    ("Sedentary" :> 1200) @@ ("Lightly active" :> 1375) @@
    ("Moderately active" :> 1550) @@ ("Very active" :> 1725) @@
    ("Extremely active" :> 1900)
ClaimOffset ==
    ("Lose weight" :> -500) @@ ("Maintain weight" :> 0) @@ ("Gain weight" :> 500)

\* 8000 times bmr * multiplier + offset, for weight and height in tenths.
ClaimTotal(c) ==
    (8 * c.weight + 5 * c.height - 40 * c.age
        + 8 * (IF c.gender = "Male" THEN 5 ELSE -161)) * ClaimMultiplier[c.activity_level]
    + 8000 * ClaimOffset[c.goal]

\* The call's result is bmr * multiplier + offset cut toward zero, the cut
\* being that of the float: where the exact value is an integer and weight or
\* height is no binary fraction, the float may lie just inside it.
Truncated ==
    LET t == ClaimTotal(call)
        s == IF t < 0 THEN -1 ELSE 1
        q == Abs(t) \div 8000
    IN  /\ result.raised = ""
        /\ \/ result.value = s * q
           \/ /\ Abs(t) % 8000 = 0 /\ q > 0
              /\ call.weight % 5 # 0 \/ call.height % 5 # 0
              /\ result.value = s * (q - 1)

Recognised ==
    call.activity_level \in DOMAIN ClaimMultiplier /\ call.goal \in DOMAIN ClaimOffset

Scenario3 ==
    /\ call.age = 25 /\ call.weight = 700 /\ call.height = 1700
    /\ call.gender = "Male" /\ call.activity_level = "Sedentary"
    /\ call.goal = "Maintain weight"

\* C5 as stated: for recognised activity level and goal calculate_calories
\* returns bmr * multiplier + offset truncated to an integer; age 25, 70 kg,
\* 170 cm, Male, Sedentary, Maintain weight gives 2008.
C5_Original ==
    IsCall("calculate_calories") /\ Recognised =>
        Truncated /\ (Scenario3 => result.value = 2008)

\* C5 as amended: the same, and the scenario gives 1971.
C5_Calories ==
    IsCall("calculate_calories") /\ Recognised =>
        Truncated /\ (Scenario3 => result.value = 1971)

C5_Witness ==
    IsCall("calculate_calories") /\ Scenario3 /\ result.value = 1971

\* C6: calculate_calories raises nothing on an unrecognised name: an unknown
\* activity level gives exactly the result of Sedentary, an unknown goal
\* exactly that of Maintain weight, the other inputs equal.
C6_Defaults ==
    IsCall("calculate_calories") =>
        /\ result.raised = ""
        /\ result = calculate_calories(
               call.age, Tenths(call.weight), Tenths(call.height), call.gender,
               IF call.activity_level \in DOMAIN ClaimMultiplier
               THEN call.activity_level ELSE "Sedentary",
               IF call.goal \in DOMAIN ClaimOffset THEN call.goal ELSE "Maintain weight",
               call.err)

C6_Witness ==
    /\ IsCall("calculate_calories")
    /\ call.activity_level = "Athlete" /\ call.goal = "Recomposition"
    /\ result.raised = "" /\ result.value > 0

\* The Imperial call's input lies in the forms' range, on a whole inch.
RoundTripInput ==
    /\ IsCall("calculate_bmi") /\ call.unit_system = Imperial
    /\ 0 < call.weight /\ call.weight <= MaxWeightLb
    /\ MinHeightIn <= call.height /\ call.height <= MaxHeightIn
    /\ call.height % 10 = 0

\* The Metric BMI of the call's weight and height converted to kg and cm.
ConvertedBmi(err) ==
    calculate_bmi(weight_kg(Tenths(call.weight), Imperial),
                  height_cm(Tenths(call.height), Imperial), Metric, err).value

\* C7 as stated: the Imperial BMI and the Metric BMI of the converted values
\* differ by at most 0.1.
C7_Original ==
    RoundTripInput /\ SettledBmi =>
        \E err \in FloatErr : Abs(result.value - ConvertedBmi(err)) <= 10

\* C7 as amended: they differ by at most 0.2, and by at most 0.1 when the
\* Imperial BMI is below 1000.
C7_RoundTrip ==
    RoundTripInput =>
        \A err \in FloatErr :
            /\ Abs(result.value - ConvertedBmi(err)) <= 20
            /\ result.value < 100000 => Abs(result.value - ConvertedBmi(err)) <= 10

C7_Witness ==
    /\ RoundTripInput /\ call.weight = 1540 /\ call.height = 670
    /\ result.value = 2410 /\ ConvertedBmi(1) = 2410

\* What a newly constructed instance returns for the call c.
FreshOutcome(c) ==
    CASE c.op = "calculate_bmi" ->
            calculate_bmi(Tenths(c.weight), Tenths(c.height), c.unit_system, c.err)
      [] c.op = "get_bmi_category" ->
            Return(get_bmi_category(BmiCategories, c.bmi))
      [] c.op = "calculate_calories" ->
            calculate_calories(c.age, Tenths(c.weight), Tenths(c.height), c.gender,
                               c.activity_level, c.goal, c.err)
      [] c.op = "calculate_ideal_weight" ->
            calculate_ideal_weight(Tenths(c.height), c.unit_system, c.errs)
      [] c.op = "show_bmi_calculator" ->
            show_bmi_calculator(BmiCategories, c.weight, c.height, c.unit_system,
                                c.err, c.errs)

C9_RoundedBmiHasCategory ==
    /\ IsCall("calculate_bmi") /\ call.weight >= 0 /\ call.height > 0 =>
           get_bmi_category(bmi_categories, result.value) \in Categories
    /\ IsCall("show_bmi_calculator") =>
           /\ result.value.category \in Categories
           /\ result.value.category = get_bmi_category(bmi_categories, result.value.bmi)

C9_Witness ==
    /\ IsCall("show_bmi_calculator")
    /\ result.value.bmi = 1850 /\ result.value.category = "Normal weight"

\* The category of the BMI of a weight (in tenths) at the call's height.
CategoryOf(weight, err) ==
    get_bmi_category(bmi_categories,
        calculate_bmi(Tenths(weight), Tenths(call.height), call.unit_system, err).value)

\* C10 as stated: for every height the form accepts, both ends of the ideal
\* weight range are Normal weight, and min <= max.
C10_Original ==
    IsCall("show_bmi_calculator") =>
        /\ result.value.min_ideal <= result.value.max_ideal
        /\ \E err \in FloatErr : CategoryOf(result.value.min_ideal, err) = "Normal weight"
        /\ \E err \in FloatErr : CategoryOf(result.value.max_ideal, err) = "Normal weight"

\* C10 as amended: min <= max for every height the form accepts, and both ends
\* are Normal weight for heights of at least 100 cm or 26.6 inches.
C10_IdealRange ==
    IsCall("show_bmi_calculator") =>
        /\ result.value.min_ideal <= result.value.max_ideal
        /\ call.height >= (IF call.unit_system = Metric THEN 1000 ELSE 266) =>
               \A err \in FloatErr :
                   /\ CategoryOf(result.value.min_ideal, err) = "Normal weight"
                   /\ CategoryOf(result.value.max_ideal, err) = "Normal weight"

C10_Witness ==
    /\ IsCall("show_bmi_calculator")
    /\ call.height = 1700 /\ call.unit_system = Metric
    /\ result.value.min_ideal = 535 /\ result.value.max_ideal = 720
    /\ CategoryOf(535, 1) = "Normal weight" /\ CategoryOf(720, 1) = "Normal weight"

====
